---- MODULE Spec2Model ----
(***************************************************************************)
(* Room / session coordinator of the SNES multiplayer server (server.js).  *)
(* The state is the room registry (the `rooms` Map), the per-connection    *)
(* socket.data record, the Socket.IO adapter rooms each socket is in, and  *)
(* the messages emitted by the handler that ran last.  Every action is one *)
(* Socket.IO handler (or the cleanup timer) run to completion.             *)
(***************************************************************************)
EXTENDS Integers, Sequences, FiniteSets, TLC

\* ---------------------------------------------------------------- bounds
\* Spec: every handler, few connections.
MaxConns == 2       \* connections that ever connect
MaxRejoins == 1     \* room:join messages sent by connections already in a room
\* SpecCap: the membership handlers (connection, room:join, disconnect,
\* cleanup), enough connections to fill a room.
CapConns == 5
CapRejoins == 0
\* both
MaxIdle == 1        \* open connections that have not joined a room yet
\* SpecClient: the controller page
MaxConnects == 3    \* 'connect' events of the controller's socket

\* ------------------------------------------------------ program constants
MAX_PLAYERS == 4
ROOM_ID_MAX == 32
ROM_NAME_MAX == 80
CHAT_MAX == 200

\* ------------------------------------------------------------ value model
Null == "null"                    \* JS null / undefined for an identifier
NoSlot == 0                       \* JS null / undefined for a slot (falsy)

ConnName(i) == "c" \o ToString(i)
ConnIds == {ConnName(i) : i \in 1..(IF MaxConns > CapConns THEN MaxConns ELSE CapConns)}

\* A room id of ROOM_ID_MAX + 1 characters and its 32-character prefix.
Long32 == "0123456789abcdef0123456789abcdef"
Long33 == Long32 \o "X"

\* roomId values a client may put in a room:join / joypad:input payload;
\* "" is an absent (falsy) roomId, "c1" is also the id of a connection.
RawRoomIds == {"", "c1"}
CapRoomIds == {Long33}
\* playerName values ("" = absent) and role values ("" = absent).
RawNames == {"ann"}
CapNames == {""}
RawRoles == {"", "emulator", "viewer"}
\* buttons and axes of a joypad:input payload (axes <<>> = absent)
RawPads == {[buttons |-> 1, axes |-> <<>>], [buttons |-> 0 - 1, axes |-> <<1, 0>>]}
\* slot values of a joypad:input payload (0 = absent)
RawSlots == {0, 3}
\* signaling messages (kind and opaque payload), and their `to` values
RelayKinds == {"webrtc:offer", "webrtc:answer", "webrtc:ice"}
RelayInputs == {[kind |-> "webrtc:offer", payload |-> "sdp-offer"],
                [kind |-> "webrtc:answer", payload |-> "sdp-answer"],
                [kind |-> "webrtc:ice", payload |-> "candidate"]}
RelayTargets == {"c1", "c2"}
\* romName values of room:setrom ("" = absent) and chat texts
RawRomNames == {"Zelda"}
DirRomNames == {"", "Zelda"}
RawTexts == {"hi"}

VARIABLES
  rooms,      \* the registry: room id -> [players, host, emulatorSocket, romName]
  sockData,   \* socket.data of each connection: [roomId, slot, isEmulator]
  connected,  \* the connections that are open
  sioRooms,   \* Socket.IO adapter: the rooms each open socket is in
  nconn,      \* number of connections accepted so far
  idle,       \* the open connections that have not joined a room yet
  nrejoins,   \* room:join messages handled from connections already in a room
  hist,       \* history, per room: owner-role joins so far, any departure so far
  last,       \* the message handled by the last step
  out,        \* the messages that step emitted, in order
  ctl         \* a ControllerClient (controller page): its fields and timers

vars == <<rooms, sockData, connected, sioRooms, nconn, idle, nrejoins, hist,
          last, out, ctl>>
serverVars == <<rooms, sockData, connected, sioRooms, nconn, idle, nrejoins,
                hist, last, out>>

\* ------------------------------------------------------------ JS helpers
Min(a, b) == IF a < b THEN a ELSE b

\* String(x).slice(0, n)
Slice(s, n) == IF Len(s) > n THEN SubSeq(s, 1, n) ELSE s

\* x >>> 0 for a 32-bit integer x: the unsigned value, as its two 16-bit halves
\* (2^32 itself is outside the checker's integers)
ToUint32(x) == [hi |-> (x \div 65536) % 65536, lo |-> x % 65536]

\* String(roomId || 'default').slice(0, 32)
NormalizeRoomId(raw) == Slice(IF raw = "" THEN "default" ELSE raw, ROOM_ID_MAX)

\* playerName || `Player ${slot}`
DefaultName(playerName, slot) ==
  IF playerName = "" THEN "Player " \o ToString(slot) ELSE playerName

\* role || 'controller'
DefaultRole(role) == IF role = "" THEN "controller" ELSE role

\* ------------------------------------------------------- registry helpers
EmptyRoom == [players |-> <<>>, host |-> Null, emulatorSocket |-> Null,
              romName |-> Null]

\* rooms.has(roomId) / rooms.get(roomId) after getOrCreateRoom(roomId)
GetOrCreateRoom(reg, roomId) ==
  IF roomId \in DOMAIN reg THEN reg
  ELSE [r \in DOMAIN reg \cup {roomId} |->
          IF r = roomId THEN EmptyRoom ELSE reg[r]]

PlayerIds(room) == {room.players[i].id : i \in 1..Len(room.players)}
UsedSlots(room) == {room.players[i].slot : i \in 1..Len(room.players)}

\* assignSlot numbering by head count: slot = number of participants + 1
AssignSlotByCount(room) ==
  IF Len(room.players) >= MAX_PLAYERS THEN NoSlot ELSE Len(room.players) + 1

\* assignSlot with the loop bound off by one: a fifth slot instead of "full"
AssignSlotNoCap(room) ==
  LET free == {s \in 1..(MAX_PLAYERS + 1) : s \notin UsedSlots(room)}
  IN  CHOOSE s \in free : \A t \in free : s <= t

\* assignSlot scanning downwards: the highest free slot
AssignSlotHighest(room) ==
  LET free == {s \in 1..MAX_PLAYERS : s \notin UsedSlots(room)}
  IN  IF free = {} THEN NoSlot
      ELSE CHOOSE s \in free : \A t \in free : s >= t

\* assignSlot: the first s in 1..MAX_PLAYERS not in use, or null (NoSlot)
AssignSlot(room) ==
  LET free == {s \in 1..MAX_PLAYERS : s \notin UsedSlots(room)}
  IN  IF free = {} THEN NoSlot
      ELSE CHOOSE s \in free : \A t \in free : s <= t

\* Map.prototype.set: replace the entry of an existing key in place,
\* append the entry of a new key.
MapSet(players, p) ==
  IF \E i \in 1..Len(players) : players[i].id = p.id
  THEN [i \in 1..Len(players) |->
          IF players[i].id = p.id THEN p ELSE players[i]]
  ELSE Append(players, p)

\* Map.prototype.delete
RECURSIVE MapDelete(_, _)
MapDelete(players, id) ==
  IF players = <<>> THEN <<>>
  ELSE IF Head(players).id = id THEN MapDelete(Tail(players), id)
  ELSE <<Head(players)>> \o MapDelete(Tail(players), id)

\* snapshot taken from the registry as it was before the handler ran
RoomInfoStale(reg, roomId) ==
  IF roomId \notin DOMAIN rooms THEN [id |-> Null, host |-> Null, players |-> <<>>]
  ELSE [id |-> roomId, host |-> rooms[roomId].host,
        players |-> rooms[roomId].players]

\* roomInfo(roomId)
RoomInfo(reg, roomId) ==
  IF roomId \notin DOMAIN reg THEN [id |-> Null, host |-> Null, players |-> <<>>]
  ELSE [id |-> roomId, host |-> reg[roomId].host, players |-> reg[roomId].players]

\* room.romName || null: an unset or empty romName is listed as null
RomNameOrNull(romName) == IF romName = "" THEN Null ELSE romName

\* getAllRooms(): one entry per room of the registry
GetAllRooms(reg) ==
  {[id |-> r,
    playerCount |-> Len(reg[r].players),
    maxPlayers |-> MAX_PLAYERS,
    players |-> [i \in 1..Len(reg[r].players) |->
                   [slot |-> reg[r].players[i].slot,
                    name |-> reg[r].players[i].name]],
    romName |-> RomNameOrNull(reg[r].romName)] : r \in DOMAIN reg}

\* ------------------------------------------------------ delivery helpers
\* io.to(target): every open socket that is in the adapter room `target`
InRoom(sio, conn, target) == {c \in conn : target \in sio[c]}
\* socket.to(target): the same, except the sending socket
OthersInRoom(sio, conn, target, self) == InRoom(sio, conn, target) \ {self}

Msg(ev, rcpt, data) == [ev |-> ev, rcpt |-> rcpt, data |-> data]

\* directory built from the registry as it was before the handler ran
BroadcastRoomListStale(reg, conn) == Msg("rooms:list", conn, GetAllRooms(rooms))

\* broadcastRoomList(): io.emit('rooms:list', getAllRooms())
BroadcastRoomList(reg, conn) == Msg("rooms:list", conn, GetAllRooms(reg))

NoData == [none |-> TRUE]
NoHist == [ownerJoins |-> 0, departed |-> FALSE]
EmptySockData == [roomId |-> "", slot |-> NoSlot, isEmulator |-> FALSE]

\* ------------------------------------------------- ControllerClient state
\* BTN_MAP, two of its buttons: B = 1 << 0, A = 1 << 8
BTN_MAP == [B |-> 1, A |-> 256]
CtlButtons == DOMAIN BTN_MAP
\* the arguments of connect(roomId, name)
CtlRoomIds == {"r1"}
CtlNames == {"ann"}

\* The fields after the constructor; `timers` are the intervals setInterval
\* has started and nobody has cleared, `emitted` what the last step sent.
CtlInit ==
  [socket |-> "none", roomId |-> "", name |-> "", slot |-> NoSlot,
   buttons |-> 0, tickId |-> 0, timers |-> {}, nextTimer |-> 1,
   connects |-> 0, emitted |-> <<>>]

\* ------------------------------------------------------------------ Init
Init ==
  /\ rooms = [r \in {} |-> EmptyRoom]
  /\ sockData = [c \in ConnIds |-> EmptySockData]
  /\ connected = {}
  /\ sioRooms = [c \in ConnIds |-> {}]
  /\ nconn = 0
  /\ idle = {}
  /\ nrejoins = 0
  /\ hist = [r \in {} |-> NoHist]
  /\ last = [ev |-> "init"]
  /\ out = <<>>
  /\ ctl = CtlInit

\* io.on('connection'): a socket is in the adapter room named by its own id
Connection(maxConns) ==
  /\ nconn < maxConns
  /\ Cardinality(idle) < MaxIdle
  /\ LET c == ConnName(nconn + 1) IN
       /\ connected' = connected \cup {c}
       /\ idle' = idle \cup {c}
       /\ sioRooms' = [sioRooms EXCEPT ![c] = {c}]
       /\ last' = [ev |-> "connection", conn |-> c]
  /\ nconn' = nconn + 1
  /\ out' = <<>>
  /\ UNCHANGED <<rooms, sockData, nrejoins, hist, ctl>>

\* ------------------------------------------------------------- room:join
\* join that hands the host position of a viewer to the first non-viewer
JoinedRoomHostNonViewer(room, c, slot, playerName, role) ==
  LET hostIsViewer ==
        \E i \in 1..Len(room.players) :
          room.players[i].id = room.host /\ room.players[i].role = "viewer"
  IN
  [room EXCEPT
     !.players = MapSet(room.players,
                        [id |-> c, slot |-> slot,
                         name |-> DefaultName(playerName, slot),
                         role |-> DefaultRole(role)]),
     !.host = IF Len(room.players) = 0 \/ (hostIsViewer /\ role # "viewer")
              THEN c ELSE room.host,
     !.emulatorSocket = IF role = "emulator" THEN c ELSE room.emulatorSocket]

\* join that makes every joiner the host
JoinedRoomAlwaysHost(room, c, slot, playerName, role) ==
  [room EXCEPT
     !.players = MapSet(room.players,
                        [id |-> c, slot |-> slot,
                         name |-> DefaultName(playerName, slot),
                         role |-> DefaultRole(role)]),
     !.host = c,
     !.emulatorSocket = IF role = "emulator" THEN c ELSE room.emulatorSocket]

\* The registry and the room after the handler's mutation (lines 154-166).
JoinedRoom(room, c, slot, playerName, role) ==
  [room EXCEPT
     !.players = MapSet(room.players,
                        [id |-> c, slot |-> slot,
                         name |-> DefaultName(playerName, slot),
                         role |-> DefaultRole(role)]),
     !.host = IF Len(room.players) = 0 THEN c ELSE room.host,
     !.emulatorSocket = IF role = "emulator" THEN c ELSE room.emulatorSocket]

\* viewer:joined notifications of the join (lines 177-197)
RECURSIVE ViewerList(_, _, _)
ViewerList(players, c, rcpt) ==
  IF players = <<>> THEN <<>>
  ELSE LET p == Head(players)
           rest == ViewerList(Tail(players), c, rcpt)
       IN  IF p.id = c \/ p.role = "emulator" THEN rest
           ELSE <<Msg("viewer:joined", rcpt,
                      [socketId |-> p.id, slot |-> p.slot, name |-> p.name])>>
                \o rest

RoomJoin(c, rawRoom, playerName, role, maxRejoins) ==
  LET roomId == NormalizeRoomId(rawRoom)
      reg1 == GetOrCreateRoom(rooms, roomId)
      room == reg1[roomId]
      slot == AssignSlot(room)
      isHost == Len(room.players) = 0
      isEmulator == role = "emulator"
      room2 == JoinedRoom(room, c, slot, playerName, role)
      reg2 == [reg1 EXCEPT ![roomId] = room2]
      sio2 == [sioRooms EXCEPT ![c] = @ \cup {roomId}]
  IN
  /\ c \in connected
  /\ c \notin idle => nrejoins < maxRejoins
  /\ nrejoins' = IF c \in idle THEN nrejoins ELSE nrejoins + 1
  /\ last' = [ev |-> "room:join", conn |-> c, roomId |-> roomId,
              playerName |-> playerName, role |-> role]
  /\ UNCHANGED <<connected, nconn, ctl>>
  /\ IF slot = NoSlot
     THEN /\ rooms' = reg1
          /\ out' = <<Msg("room:error", {c},
                          [message |-> "Room is full (max 4 players)."])>>
          /\ UNCHANGED <<sockData, sioRooms, idle, hist>>
     ELSE /\ rooms' = reg2
          /\ hist' = [r \in DOMAIN reg2 |->
                        LET h == IF r \in DOMAIN hist THEN hist[r] ELSE NoHist
                        IN  IF r = roomId /\ isEmulator
                            THEN [h EXCEPT !.ownerJoins = Min(@ + 1, 2)]
                            ELSE h]
          /\ idle' = idle \ {c}
          /\ sioRooms' = sio2
          /\ sockData' = [sockData EXCEPT ![c] =
                 [roomId |-> roomId, slot |-> slot, isEmulator |-> isEmulator]]
          /\ out' =
               <<Msg("room:joined", {c},
                     [slot |-> slot, isHost |-> isHost, roomId |-> roomId,
                      info |-> RoomInfo(reg2, roomId)]),
                 Msg("room:updated", OthersInRoom(sio2, connected, roomId, c),
                     RoomInfo(reg2, roomId)),
                 BroadcastRoomList(reg2, connected)>>
               \o (IF ~isEmulator /\ room2.emulatorSocket # Null
                   THEN <<Msg("viewer:joined",
                              InRoom(sio2, connected, room2.emulatorSocket),
                              [socketId |-> c, slot |-> slot,
                               name |-> DefaultName(playerName, slot)])>>
                   ELSE <<>>)
               \o (IF isEmulator
                   THEN ViewerList(room2.players, c, {c})
                        \o <<Msg("emulator:joined",
                                 OthersInRoom(sio2, connected, roomId, c),
                                 NoData)>>
                   ELSE <<>>)

\* ------------------------------------------------------------ disconnect
\* replacement host without the fallback to a viewer
NextHostNoFallback(players) ==
  LET nv == {i \in 1..Len(players) : players[i].role # "viewer"}
  IN  IF nv # {} THEN players[CHOOSE i \in nv : \A j \in nv : i <= j].id
      ELSE Null

\* The replacement host (lines 336-338): the first remaining participant
\* whose role is not viewer, else the first remaining participant.
NextHost(players) ==
  LET nv == {i \in 1..Len(players) : players[i].role # "viewer"}
  IN  IF nv # {} THEN players[CHOOSE i \in nv : \A j \in nv : i <= j].id
      ELSE players[1].id

\* departure that forgets to clear the emulator ownership
LeftRoomKeepOwner(room, c) ==
  LET players2 == MapDelete(room.players, c)
  IN  [room EXCEPT
         !.players = players2,
         !.host = IF players2 # <<>> /\ room.host = c
                  THEN NextHost(players2) ELSE @]

\* The room after the departure of c (lines 320-324 and 335-338).
LeftRoom(room, c) ==
  LET players2 == MapDelete(room.players, c)
  IN  [room EXCEPT
         !.players = players2,
         !.emulatorSocket = IF room.emulatorSocket = c THEN Null ELSE @,
         !.host = IF players2 # <<>> /\ room.host = c
                  THEN NextHost(players2) ELSE @]

\* departure that keeps a room whose last participant left
LeftRegistryKeepEmpty(reg, roomId, c) ==
  [reg EXCEPT ![roomId] = LeftRoom(reg[roomId], c)]

\* The registry after the departure of c from roomId (lines 329-331).
LeftRegistry(reg, roomId, c) ==
  IF LeftRoom(reg[roomId], c).players = <<>>
  THEN [r \in DOMAIN reg \ {roomId} |-> reg[r]]
  ELSE [reg EXCEPT ![roomId] = LeftRoom(reg[roomId], c)]

Disconnect(c) ==
  LET roomId == sockData[c].roomId
      conn2 == connected \ {c}
      sio2 == [sioRooms EXCEPT ![c] = {}]
      room == rooms[roomId]
      reg3 == LeftRegistry(rooms, roomId, c)
      left == IF room.emulatorSocket = c
              THEN <<Msg("emulator:left", InRoom(sio2, conn2, roomId), NoData)>>
              ELSE <<>>
  IN
  /\ c \in connected
  /\ connected' = conn2
  /\ sioRooms' = sio2
  /\ sockData' = [sockData EXCEPT ![c] = EmptySockData]
  /\ last' = [ev |-> "disconnect", conn |-> c, roomId |-> roomId]
  /\ idle' = idle \ {c}
  /\ UNCHANGED <<nconn, nrejoins, ctl>>
  /\ IF roomId = "" \/ roomId \notin DOMAIN rooms
     THEN /\ out' = <<>>
          /\ UNCHANGED <<rooms, hist>>
     ELSE /\ rooms' = reg3
          /\ hist' = [r \in DOMAIN reg3 |->
                        IF r = roomId THEN [hist[r] EXCEPT !.departed = TRUE]
                        ELSE hist[r]]
          /\ out' = IF roomId \notin DOMAIN reg3
                    THEN left \o <<BroadcastRoomList(reg3, conn2)>>
                    ELSE left
                         \o (IF room.host = c
                             THEN <<Msg("room:newhost",
                                        InRoom(sio2, conn2, roomId),
                                        [host |-> reg3[roomId].host])>>
                             ELSE <<>>)
                         \o <<Msg("room:updated", InRoom(sio2, conn2, roomId),
                                  RoomInfo(reg3, roomId)),
                              BroadcastRoomList(reg3, conn2)>>

\* -------------------------------------------------- stale-room cleanup
\* sweep with the test off by one: rooms with a single participant go too
CleanedSingles(reg) == {r \in DOMAIN reg : Len(reg[r].players) <= 1}

\* the rooms the sweep deletes (lines 355-358)
Cleaned(reg) == {r \in DOMAIN reg : Len(reg[r].players) = 0}
Reaper ==
  /\ rooms' = [r \in DOMAIN rooms \ Cleaned(rooms) |-> rooms[r]]
  /\ hist' = [r \in DOMAIN rooms \ Cleaned(rooms) |-> hist[r]]
  /\ out' = IF Cleaned(rooms) # {}
            THEN <<BroadcastRoomList(
                     [r \in DOMAIN rooms \ Cleaned(rooms) |-> rooms[r]],
                     connected)>>
            ELSE <<>>
  /\ last' = [ev |-> "cleanup"]
  /\ UNCHANGED <<sockData, connected, sioRooms, nconn, idle, nrejoins, ctl>>

\* ---------------------------------------------------------- joypad:input
\* joypad:input that prefers the payload's roomId and slot to socket.data
JoypadInputPayloadFirst(c, pRoom, pSlot, pad) ==
  LET roomId == IF pRoom # "" THEN pRoom ELSE sockData[c].roomId
      slot == IF pSlot # NoSlot THEN pSlot ELSE sockData[c].slot
      room == rooms[roomId]
      target == IF room.emulatorSocket # Null THEN room.emulatorSocket
                ELSE room.host
  IN
  /\ c \in connected
  /\ last' = [ev |-> "joypad:input", conn |-> c, roomId |-> pRoom,
              slot |-> pSlot, pad |-> pad]
  /\ out' = IF roomId = "" \/ slot = NoSlot THEN <<>>
            ELSE IF roomId \notin DOMAIN rooms THEN <<>>
            ELSE IF target = Null THEN <<>>
            ELSE <<Msg("joypad:state", InRoom(sioRooms, connected, target),
                       [slot |-> slot, buttons |-> ToUint32(pad.buttons),
                        axes |-> IF pad.axes = <<>> THEN <<0, 0>>
                                 ELSE pad.axes])>>
  /\ UNCHANGED <<rooms, sockData, connected, sioRooms, nconn, idle,
               nrejoins, hist, ctl>>

JoypadInput(c, pRoom, pSlot, pad) ==
  LET roomId == IF sockData[c].roomId # "" THEN sockData[c].roomId ELSE pRoom
      slot == IF sockData[c].slot # NoSlot THEN sockData[c].slot ELSE pSlot
      room == rooms[roomId]
      target == IF room.emulatorSocket # Null THEN room.emulatorSocket
                ELSE room.host
  IN
  /\ c \in connected
  /\ last' = [ev |-> "joypad:input", conn |-> c, roomId |-> pRoom,
              slot |-> pSlot, pad |-> pad]
  /\ out' = IF roomId = "" \/ slot = NoSlot THEN <<>>
            ELSE IF roomId \notin DOMAIN rooms THEN <<>>
            ELSE IF target = Null THEN <<>>
            ELSE <<Msg("joypad:state", InRoom(sioRooms, connected, target),
                       [slot |-> slot, buttons |-> ToUint32(pad.buttons),
                        axes |-> IF pad.axes = <<>> THEN <<0, 0>>
                                 ELSE pad.axes])>>
  /\ UNCHANGED <<rooms, sockData, connected, sioRooms, nconn, idle,
               nrejoins, hist, ctl>>

\* ----------------------------------------------------------- room:setrom
\* room:setrom that stores the name without publishing the directory
SetRomSilent(c, romName) ==
  /\ c \in connected
  /\ last' = [ev |-> "room:setrom", conn |-> c, romName |-> romName]
  /\ rooms' = IF sockData[c].roomId \notin DOMAIN rooms THEN rooms
              ELSE [rooms EXCEPT ![sockData[c].roomId].romName =
                                    Slice(romName, ROM_NAME_MAX)]
  /\ out' = <<>>
  /\ UNCHANGED <<sockData, connected, sioRooms, nconn, idle, nrejoins, hist,
               ctl>>

SetRom(c, romName) ==
  LET roomId == sockData[c].roomId
      reg2 == [rooms EXCEPT ![roomId].romName = Slice(romName, ROM_NAME_MAX)]
  IN
  /\ c \in connected
  /\ last' = [ev |-> "room:setrom", conn |-> c, romName |-> romName]
  /\ IF roomId \notin DOMAIN rooms
     THEN /\ out' = <<>>
          /\ UNCHANGED rooms
     ELSE /\ rooms' = reg2
          /\ out' = <<BroadcastRoomList(reg2, connected)>>
  /\ UNCHANGED <<sockData, connected, sioRooms, nconn, idle, nrejoins, hist,
               ctl>>

\* -------------------------------------- webrtc:offer / answer / ice relay
Relay(kind, c, to, payload) ==
  /\ c \in connected
  /\ last' = [ev |-> kind, conn |-> c, to |-> to, payload |-> payload]
  /\ out' = <<Msg(kind, InRoom(sioRooms, connected, to),
                  [from |-> c, payload |-> payload])>>
  /\ UNCHANGED <<rooms, sockData, connected, sioRooms, nconn, idle,
               nrejoins, hist, ctl>>

\* -------------------------------------------------- webrtc:request-offer
\* room.players.get(id)?.name || 'Viewer'
NameOf(players, id, dflt) ==
  IF \E i \in 1..Len(players) : players[i].id = id
  THEN LET n == players[CHOOSE i \in 1..Len(players) : players[i].id = id].name
       IN  IF n = "" THEN dflt ELSE n
  ELSE dflt

\* request-offer that looks its room up with getOrCreateRoom
RequestOfferCreates(c) ==
  LET roomId == sockData[c].roomId
      reg1 == GetOrCreateRoom(rooms, roomId)
      room == reg1[roomId]
  IN
  /\ c \in connected
  /\ last' = [ev |-> "webrtc:request-offer", conn |-> c]
  /\ rooms' = reg1
  /\ hist' = [r \in DOMAIN reg1 |->
                IF r \in DOMAIN hist THEN hist[r] ELSE NoHist]
  /\ out' = IF room.emulatorSocket = Null THEN <<>>
            ELSE <<Msg("viewer:joined",
                       InRoom(sioRooms, connected, room.emulatorSocket),
                       [socketId |-> c, slot |-> sockData[c].slot,
                        name |-> NameOf(room.players, c, "Viewer")])>>
  /\ UNCHANGED <<sockData, connected, sioRooms, nconn, idle, nrejoins, ctl>>

RequestOffer(c) ==
  LET roomId == sockData[c].roomId
      room == rooms[roomId]
  IN
  /\ c \in connected
  /\ last' = [ev |-> "webrtc:request-offer", conn |-> c]
  /\ out' = IF roomId \notin DOMAIN rooms THEN <<>>
            ELSE IF room.emulatorSocket = Null THEN <<>>
            ELSE <<Msg("viewer:joined",
                       InRoom(sioRooms, connected, room.emulatorSocket),
                       [socketId |-> c, slot |-> sockData[c].slot,
                        name |-> NameOf(room.players, c, "Viewer")])>>
  /\ UNCHANGED <<rooms, sockData, connected, sioRooms, nconn, idle,
               nrejoins, hist, ctl>>

\* -------------------------------------------------------------- perf:ping
PerfPing(c, hasAck) ==
  /\ c \in connected
  /\ last' = [ev |-> "perf:ping", conn |-> c]
  /\ out' = IF hasAck THEN <<Msg("perf:ack", {c}, NoData)>> ELSE <<>>
  /\ UNCHANGED <<rooms, sockData, connected, sioRooms, nconn, idle,
               nrejoins, hist, ctl>>

\* --------------------------------------------------------------- chat:msg
\* player ? player.name : 'Unknown'
ChatFrom(players, id) ==
  IF \E i \in 1..Len(players) : players[i].id = id
  THEN players[CHOOSE i \in 1..Len(players) : players[i].id = id].name
  ELSE "Unknown"

ChatMsg(c, text) ==
  LET roomId == sockData[c].roomId
  IN
  /\ c \in connected
  /\ last' = [ev |-> "chat:msg", conn |-> c, text |-> text]
  /\ out' = IF roomId \notin DOMAIN rooms THEN <<>>
            ELSE <<Msg("chat:msg", InRoom(sioRooms, connected, roomId),
                       [from |-> ChatFrom(rooms[roomId].players, c),
                        slot |-> sockData[c].slot,
                        text |-> Slice(text, CHAT_MAX)])>>
  /\ UNCHANGED <<rooms, sockData, connected, sioRooms, nconn, idle,
               nrejoins, hist, ctl>>

\* --------------------------------------------------------- GET /api/rooms
\* The pull query of the directory; the reply goes to the HTTP client, which
\* is no socket.
ApiRooms ==
  /\ last' = [ev |-> "GET /api/rooms"]
  /\ out' = <<Msg("api:rooms", {}, GetAllRooms(rooms))>>
  /\ UNCHANGED <<rooms, sockData, connected, sioRooms, nconn, idle,
               nrejoins, hist, ctl>>

\* ------------------------------------------------------- ControllerClient
HasBit(x, bit) == (x \div bit) % 2 = 1

\* connect(roomId, name): io() opens the socket, the handlers are registered
CtlConnect(roomId, name) ==
  /\ ctl.socket = "none"
  /\ ctl' = [ctl EXCEPT !.socket = "connecting", !.roomId = roomId,
                        !.name = name, !.emitted = <<>>]
  /\ UNCHANGED serverVars

\* _startSendLoop(): setInterval starts a timer; its id is not stored
StartSendLoop(c) ==
  [c EXCEPT !.timers = @ \cup {c.nextTimer}, !.nextTimer = @ + 1]

\* the socket's 'connect' event, on the first connection and on every
\* reconnection: emit room:join, start the send loop
CtlOnConnect ==
  /\ ctl.socket \in {"connecting", "closed"}
  /\ ctl.connects < MaxConnects
  /\ ctl' = [StartSendLoop(ctl) EXCEPT
               !.socket = "open",
               !.connects = @ + 1,
               !.emitted = <<[ev |-> "room:join", roomId |-> ctl.roomId,
                              playerName |-> ctl.name, role |-> "controller"]>>]
  /\ UNCHANGED serverVars

\* the 'room:joined' reply: this.slot = slot
CtlOnRoomJoined(slot) ==
  /\ ctl.socket = "open"
  /\ ctl' = [ctl EXCEPT !.slot = slot, !.emitted = <<>>]
  /\ UNCHANGED serverVars

\* clearInterval(id): stops the timer with that id, if there is one
ClearInterval(timers, id) == timers \ {id}

\* the socket's 'disconnect' event: clearInterval(this._tickId)
CtlOnDisconnect ==
  /\ ctl.socket = "open"
  /\ ctl' = [ctl EXCEPT !.socket = "closed",
                        !.timers = ClearInterval(@, ctl.tickId),
                        !.emitted = <<>>]
  /\ UNCHANGED serverVars

\* press(btnName): this.buttons |= bit
CtlPress(b) ==
  /\ ~HasBit(ctl.buttons, BTN_MAP[b])
  /\ ctl' = [ctl EXCEPT !.buttons = @ + BTN_MAP[b], !.emitted = <<>>]
  /\ UNCHANGED serverVars

\* release(btnName): this.buttons &= ~bit
CtlRelease(b) ==
  /\ HasBit(ctl.buttons, BTN_MAP[b])
  /\ ctl' = [ctl EXCEPT !.buttons = @ - BTN_MAP[b], !.emitted = <<>>]
  /\ UNCHANGED serverVars

\* One period of the send interval (1000 / 60 ms): the callback of every
\* running timer fires once and emits joypad:input when the socket is
\* connected.
CtlTick ==
  /\ ctl.timers # {}
  /\ ctl' = [ctl EXCEPT !.emitted =
               IF ctl.socket # "open" THEN <<>>
               ELSE [i \in 1..Cardinality(ctl.timers) |->
                       [ev |-> "joypad:input",
                        buttons |-> ToUint32(ctl.buttons),
                        roomId |-> ctl.roomId, slot |-> ctl.slot]]]
  /\ UNCHANGED serverVars

\* --------------------------------------------------------- specifications
Next ==
  \/ Connection(MaxConns)
  \/ \E c \in ConnIds, r \in RawRoomIds, n \in RawNames, ro \in RawRoles :
       RoomJoin(c, r, n, ro, MaxRejoins)
  \/ \E c \in ConnIds : Disconnect(c)
  \/ Reaper
  \/ \E c \in ConnIds, r \in RawRoomIds, sl \in RawSlots, p \in RawPads :
       JoypadInput(c, r, sl, p)
  \/ \E c \in ConnIds, n \in RawRomNames : SetRom(c, n)
  \/ \E m \in RelayInputs, c \in ConnIds, to \in RelayTargets :
       Relay(m.kind, c, to, m.payload)
  \/ \E c \in ConnIds : RequestOffer(c)
  \/ \E c \in ConnIds, a \in BOOLEAN : PerfPing(c, a)
  \/ \E c \in ConnIds, t \in RawTexts : ChatMsg(c, t)
  \/ ApiRooms

Spec == Init /\ [][Next]_vars

NextCap ==
  \/ Connection(CapConns)
  \/ \E c \in ConnIds, r \in CapRoomIds, n \in CapNames, ro \in RawRoles :
       RoomJoin(c, r, n, ro, CapRejoins)
  \/ \E c \in ConnIds : Disconnect(c)
  \/ Reaper

SpecCap == Init /\ [][NextCap]_vars

\* The membership handlers of Spec; the cleanup timer (setInterval, every
\* 30 s) keeps firing.
NextLive ==
  \/ Connection(MaxConns)
  \/ \E c \in ConnIds, r \in RawRoomIds, n \in RawNames, ro \in RawRoles :
       RoomJoin(c, r, n, ro, MaxRejoins)
  \/ \E c \in ConnIds : Disconnect(c)
  \/ Reaper

SpecLive == Init /\ [][NextLive]_vars /\ WF_vars(Reaper)

\* The handlers that change or publish the directory of rooms: the
\* membership handlers, room:setrom (also with an empty romName) and the
\* pull query.
NextDir ==
  \/ Connection(MaxConns)
  \/ \E c \in ConnIds, r \in RawRoomIds, n \in RawNames, ro \in RawRoles :
       RoomJoin(c, r, n, ro, MaxRejoins)
  \/ \E c \in ConnIds : Disconnect(c)
  \/ Reaper
  \/ \E c \in ConnIds, n \in DirRomNames : SetRom(c, n)
  \/ ApiRooms

SpecDir == Init /\ [][NextDir]_vars

\* The controller page: its socket connects, drops and reconnects, buttons
\* are pressed and released, the send interval ticks.
NextClient ==
  \/ \E r \in CtlRoomIds, n \in CtlNames : CtlConnect(r, n)
  \/ CtlOnConnect
  \/ \E sl \in 1..MAX_PLAYERS : CtlOnRoomJoined(sl)
  \/ CtlOnDisconnect
  \/ \E b \in CtlButtons : CtlPress(b)
  \/ \E b \in CtlButtons : CtlRelease(b)
  \/ CtlTick

SpecClient == Init /\ [][NextClient]_vars

\* ------------------------------------------------------------ properties
IsJoin(l) == l.ev = "room:join"
IsDisconnect(l) == l.ev = "disconnect"
Joined(o) == Len(o) >= 1 /\ o[1].ev = "room:joined"
Rejected(o) == Len(o) >= 1 /\ o[1].ev = "room:error"
\* the participant entries of connection c in a room
EntriesOf(room, c) == {i \in 1..Len(room.players) : room.players[i].id = c}
Smallest(S) == CHOOSE s \in S : \A t \in S : s <= t

\* C1: in every reachable state the slots held by the participants of a room
\* are pairwise distinct and lie in 1..4, so a room never holds more than 4
\* participants.
C1_SlotsDistinct ==
  \A r \in DOMAIN rooms :
    LET ps == rooms[r].players IN
      /\ \A i, j \in 1..Len(ps) : i # j => ps[i].slot # ps[j].slot
      /\ \A i \in 1..Len(ps) : ps[i].slot \in 1..4
      /\ Len(ps) <= 4

\* a room is full again after a participant left it and another one joined
C1_Witness ==
  \E r \in DOMAIN rooms :
    /\ Len(rooms[r].players) = 4
    /\ hist[r].departed
    /\ IsJoin(last) /\ Joined(out)

\* C2: a room:join to a room that already has 4 participants changes neither
\* the registry nor the requester's socket.data (nor the adapter rooms), and
\* emits exactly one message, room:error, to the requester only.
C2_FullJoinNoChange ==
  [][(IsJoin(last') /\ last'.roomId \in DOMAIN rooms
        /\ Len(rooms[last'.roomId].players) = 4)
     => /\ rooms' = rooms
        /\ sockData' = sockData
        /\ sioRooms' = sioRooms
        /\ Len(out') = 1
        /\ out'[1].ev = "room:error"
        /\ out'[1].rcpt = {last'.conn}]_vars

\* a connection that is in no room has been refused by a full room
C2_Witness ==
  /\ IsJoin(last) /\ Rejected(out)
  /\ last.conn \in idle
  /\ Len(rooms[last.roomId].players) = 4

\* C10: a successful join gives the joiner the smallest slot of 1..4 that no
\* participant of the room held before the join.
C10_LowestFreeSlot ==
  [][(IsJoin(last') /\ Joined(out'))
     => LET r == last'.roomId
            used == IF r \in DOMAIN rooms THEN UsedSlots(rooms[r]) ELSE {}
            k == Smallest((1..4) \ used)
        IN  /\ out'[1].data.slot = k
            /\ sockData'[last'.conn].slot = k
            /\ \A i \in EntriesOf(rooms'[r], last'.conn) :
                  rooms'[r].players[i].slot = k]_vars

\* a join has been given slot 2 while slots 1 and 3 were held: the slot freed
\* by a departure is reused
C10_Witness ==
  /\ IsJoin(last) /\ Joined(out)
  /\ out[1].data.slot = 2
  /\ hist[last.roomId].departed
  /\ {1, 2, 3} \subseteq UsedSlots(rooms[last.roomId])
  /\ last.conn \in PlayerIds(rooms[last.roomId])

IsJoypad(l) == l.ev = "joypad:input"
\* the room a joypad:input of the last step is attributed to
JoypadRoom(l) ==
  IF sockData[l.conn].roomId # "" THEN sockData[l.conn].roomId ELSE l.roomId
\* ownerConnection when it is non-null, otherwise hostConnection
OwnerOrHost(room) ==
  IF room.emulatorSocket # Null THEN room.emulatorSocket ELSE room.host
Owners(room) ==
  {i \in 1..Len(room.players) : room.players[i].role = "emulator"}
RoomNames == {NormalizeRoomId(r) : r \in RawRoomIds \cup CapRoomIds}

\* C3: every joypad:state produced for a joypad:input attributed to room R is
\* delivered to exactly one connection, R's emulatorSocket when it is non-null
\* and otherwise R's host; nothing is delivered when R is not in the registry
\* or has neither.
C3_RoutedToOwnerOnly ==
  IsJoypad(last) =>
    LET R == JoypadRoom(last) IN
      IF R \in DOMAIN rooms /\ OwnerOrHost(rooms[R]) # Null
      THEN \A i \in 1..Len(out) : out[i].rcpt = {OwnerOrHost(rooms[R])}
      ELSE out = <<>>

\* C4: a webrtc:offer / answer / ice {to, payload} from s is relayed as one
\* message of the same kind with from = s and the same payload, and no
\* connection other than the one whose id is `to` receives it.
C4_RelayedToRecipientOnly ==
  last.ev \in RelayKinds =>
    /\ Len(out) = 1
    /\ out[1].ev = last.ev
    /\ out[1].data = [from |-> last.conn, payload |-> last.payload]
    /\ out[1].rcpt \subseteq {last.to}

\* C5: every room of the registry has a non-null host that is the id of one
\* of the room's participants.
C5_HostIsParticipant ==
  \A r \in DOMAIN rooms :
    rooms[r].host # Null /\ rooms[r].host \in PlayerIds(rooms[r])

\* the host left and a viewer, the only participant remaining, took over
C5_Witness ==
  /\ IsDisconnect(last)
  /\ \E i \in 1..Len(out) : out[i].ev = "room:newhost"
  /\ \A i \in 1..Len(rooms[last.roomId].players) :
       rooms[last.roomId].players[i].role = "viewer"

\* C6: when the host of a room disconnects and a participant remains, the
\* new host is a remaining participant, the first non-viewer in join order
\* when there is one, and a room:newhost naming it is emitted.
C6_HostReassigned ==
  [][IsDisconnect(last') =>
       \A r \in DOMAIN rooms :
         LET rem == MapDelete(rooms[r].players, last'.conn)
             nv == {i \in 1..Len(rem) : rem[i].role # "viewer"}
         IN  (rooms[r].host = last'.conn /\ rem # <<>>) =>
               /\ r \in DOMAIN rooms'
               /\ \E i \in 1..Len(rem) : rem[i].id = rooms'[r].host
               /\ nv # {} => rooms'[r].host = rem[Smallest(nv)].id
               /\ \E k \in 1..Len(out') :
                    /\ out'[k].ev = "room:newhost"
                    /\ out'[k].data.host = rooms'[r].host]_vars

\* C7 (as claimed): at most one participant of a room has role emulator, and
\* emulatorSocket is null or the id of that participant.
C7_SingleOwner ==
  \A r \in DOMAIN rooms :
    /\ Cardinality(Owners(rooms[r])) <= 1
    /\ \/ rooms[r].emulatorSocket = Null
       \/ \E i \in Owners(rooms[r]) :
            rooms[r].players[i].id = rooms[r].emulatorSocket

\* C7 (amended): a room's emulatorSocket is null or the id of one of the
\* room's participants (several participants may have role emulator).
C7_OwnerIsParticipant ==
  \A r \in DOMAIN rooms :
    \/ rooms[r].emulatorSocket = Null
    \/ rooms[r].emulatorSocket \in PlayerIds(rooms[r])

\* two participants with role emulator, the later joiner is emulatorSocket
C7_Witness ==
  \E r \in DOMAIN rooms :
    /\ Cardinality(Owners(rooms[r])) = 2
    /\ IsJoin(last) /\ Joined(out) /\ last.roomId = r
    /\ rooms[r].emulatorSocket = last.conn

\* C8: a room that has seen joins only, exactly one of them with role
\* emulator, has exactly one participant with role emulator; a second
\* emulator-role join makes the joiner the emulatorSocket, and a joypad:input
\* of that room is then routed to the emulatorSocket alone.
C8_OneOwnerJoinOneOwner ==
  /\ \A r \in DOMAIN rooms :
       (~hist[r].departed /\ hist[r].ownerJoins = 1)
         => Cardinality(Owners(rooms[r])) = 1
  /\ (IsJoin(last) /\ Joined(out) /\ last.role = "emulator"
        /\ hist[last.roomId].ownerJoins = 2)
       => rooms[last.roomId].emulatorSocket = last.conn
  /\ (IsJoypad(last) /\ JoypadRoom(last) \in DOMAIN rooms)
       => LET R == JoypadRoom(last) IN
            (hist[R].ownerJoins = 2 /\ rooms[R].emulatorSocket # Null
               /\ out # <<>>)
              => \A i \in 1..Len(out) : out[i].rcpt = {rooms[R].emulatorSocket}

\* C9: right after a disconnect no room of the registry is without
\* participants (the room that lost its last participant is gone); and a room
\* without participants is eventually absent from the registry.
C9_EmptyRoomsGone ==
  /\ [][IsDisconnect(last') =>
          \A r \in DOMAIN rooms' : rooms'[r].players # <<>>]_vars
  /\ \A r \in RoomNames :
       (r \in DOMAIN rooms /\ rooms[r].players = <<>>)
         ~> (r \notin DOMAIN rooms)

\* a disconnect removed the last participant of its room, the room is gone
C9_Witness ==
  /\ IsDisconnect(last)
  /\ last.roomId # ""
  /\ last.roomId \notin DOMAIN rooms

\* the number of participants a room has (0 when it is not in the registry)
Occupancy(reg, r) == IF r \in DOMAIN reg THEN Len(reg[r].players) ELSE 0

\* C11: the isHost flag of a room:joined reply is true exactly when the room
\* had no participant before the join, and then the joiner becomes the host;
\* otherwise the join leaves the host unchanged.  Successive joins by distinct
\* connections to a fresh room are answered (isHost, slot 1), (not isHost,
\* slot 2), slot 3, slot 4 and room:error.
C11_IsHostIffFirst ==
  [][IsJoin(last') =>
       LET r == last'.roomId
           before == Occupancy(rooms, r)
       IN  /\ Joined(out') =>
                /\ out'[1].data.isHost = (before = 0)
                /\ before = 0 => rooms'[r].host = last'.conn
                /\ before # 0 => rooms'[r].host = rooms[r].host
           /\ (nrejoins' = 0 /\ r \in DOMAIN hist' /\ ~hist'[r].departed) =>
                IF before < 4
                THEN /\ Joined(out')
                     /\ out'[1].data.slot = before + 1
                     /\ out'[1].data.isHost = (before = 0)
                ELSE Rejected(out')]_vars

\* the fifth of five successive joins to a fresh room has been refused; the
\* first joiner is the host
C11_Witness ==
  /\ IsJoin(last) /\ Rejected(out)
  /\ nrejoins = 0
  /\ ~hist[last.roomId].departed
  /\ [i \in 1..Len(rooms[last.roomId].players) |->
        rooms[last.roomId].players[i].slot] = <<1, 2, 3, 4>>
  /\ rooms[last.roomId].host = rooms[last.roomId].players[1].id
  /\ last.conn \notin PlayerIds(rooms[last.roomId])

\* the indices of the messages of an event in the output of the last step
Sent(o, ev) == {i \in 1..Len(o) : o[i].ev = ev}
\* the participants of a room with a given role, the joiner c excepted
OthersWithRole(room, c, role) ==
  {i \in 1..Len(room.players) :
     room.players[i].id # c /\ room.players[i].role = role}

\* an emulator-role join to a room in which three controllers and one viewer
\* have joined and from which nobody has left
C12_OwnerJoinsAfterFour ==
  /\ IsJoin(last) /\ last.role = "emulator"
  /\ last.roomId \in DOMAIN rooms
  /\ ~hist[last.roomId].departed
  /\ Cardinality(OthersWithRole(rooms[last.roomId], last.conn, "controller")) = 3
  /\ Cardinality(OthersWithRole(rooms[last.roomId], last.conn, "viewer")) = 1

\* C12 (as claimed): after three controllers and one viewer have joined a room
\* and none has left, an emulator-role join makes the joiner receive four
\* viewer:joined, one per participant, and all four participants receive
\* emulator:joined.
C12_OwnerNotifiedOfFour ==
  C12_OwnerJoinsAfterFour =>
    LET room == rooms[last.roomId] IN
      /\ Cardinality({i \in Sent(out, "viewer:joined") :
                        out[i].rcpt = {last.conn}}) = 4
      /\ \A k \in 1..Len(room.players) :
           (room.players[k].id # last.conn) =>
             \E i \in Sent(out, "viewer:joined") :
               out[i].data.socketId = room.players[k].id
      /\ \E i \in Sent(out, "emulator:joined") :
           (PlayerIds(room) \ {last.conn}) \subseteq out[i].rcpt

\* C12 (amended): after three controllers and one viewer have joined a room
\* and none has left, an emulator-role join is refused: the joiner receives
\* room:error and nothing else, no viewer:joined and no emulator:joined is
\* sent, and the joiner does not become a participant or the emulatorSocket.
C12_OwnerRefusedAfterFour ==
  C12_OwnerJoinsAfterFour =>
    /\ Len(out) = 1
    /\ out[1].ev = "room:error"
    /\ out[1].rcpt = {last.conn}
    /\ Sent(out, "viewer:joined") = {}
    /\ Sent(out, "emulator:joined") = {}
    /\ last.conn \notin PlayerIds(rooms[last.roomId])
    /\ rooms[last.roomId].emulatorSocket # last.conn

\* the emulator-role join after the four has been handled
C12_Witness ==
  /\ C12_OwnerJoinsAfterFour
  /\ Rejected(out)
  /\ Len(rooms[last.roomId].players) = 4

\* the slot a joypad:input of the last step is attributed to
JoypadSlot(l) ==
  IF sockData[l.conn].slot # NoSlot THEN sockData[l.conn].slot ELSE l.slot

\* C13: when the connection that is a room's emulatorSocket disconnects, the
\* emulatorSocket becomes null and emulator:left is sent to every remaining
\* participant of the room; a disconnect of any other connection leaves the
\* emulatorSocket unchanged and sends no emulator:left.  A later joypad:input
\* of a room without emulatorSocket is routed to the host when there is one.
C13_OwnerLeft ==
  /\ [][IsDisconnect(last') =>
          /\ \A r \in DOMAIN rooms :
               IF rooms[r].emulatorSocket = last'.conn
               THEN /\ r \in DOMAIN rooms' => rooms'[r].emulatorSocket = Null
                    /\ \E i \in Sent(out', "emulator:left") :
                         (PlayerIds(rooms[r]) \ {last'.conn}) \subseteq out'[i].rcpt
               ELSE r \in DOMAIN rooms' =>
                      rooms'[r].emulatorSocket = rooms[r].emulatorSocket
          /\ (\A r \in DOMAIN rooms : rooms[r].emulatorSocket # last'.conn)
               => Sent(out', "emulator:left") = {}]_vars
  /\ [](IsJoypad(last) =>
          LET R == JoypadRoom(last) IN
            (/\ R \in DOMAIN rooms
             /\ JoypadSlot(last) # NoSlot
             /\ rooms[R].emulatorSocket = Null
             /\ rooms[R].host # Null)
            => \E i \in Sent(out, "joypad:state") : rooms[R].host \in out[i].rcpt)


\* C16: after the disconnect of connection c has been handled, c is not a
\* participant of any room of the registry and no room's host or
\* emulatorSocket is c, whatever messages c sent before.
C16_GoneAfterDisconnect ==
  [][IsDisconnect(last') =>
       \A r \in DOMAIN rooms' :
         /\ last'.conn \notin PlayerIds(rooms'[r])
         /\ rooms'[r].host # last'.conn
         /\ rooms'[r].emulatorSocket # last'.conn]_vars

\* the directory messages of the last step: the broadcast and the pull reply
DirectoryMsgs(o) == Sent(o, "rooms:list") \cup Sent(o, "api:rooms")

\* C14: every directory message (rooms:list and the reply of GET /api/rooms)
\* lists exactly the rooms of the registry as it is after the handler, each
\* with playerCount equal to its number of participants, maxPlayers = 4, the
\* slot and name of each participant, and the room's romName (null when it is
\* unset).
C14_DirectoryMatchesRegistry ==
  \A i \in DirectoryMsgs(out) :
    LET d == out[i].data IN
      /\ {e.id : e \in d} = DOMAIN rooms
      /\ Cardinality(d) = Cardinality(DOMAIN rooms)
      /\ \A e \in d :
           LET room == rooms[e.id] IN
             /\ e.playerCount = Len(room.players)
             /\ e.maxPlayers = 4
             /\ Len(e.players) = Len(room.players)
             /\ \A k \in 1..Len(room.players) :
                  /\ e.players[k].slot = room.players[k].slot
                  /\ e.players[k].name = room.players[k].name
             /\ IF room.romName \in {Null, ""}
                THEN e.romName = Null
                ELSE e.romName = room.romName

\* two rooms with one participant each, one of them labelled, the other with
\* its label set to the empty string; a join or a leave has just been
\* broadcast
C14_Witness ==
  /\ Cardinality(DOMAIN rooms) = 2
  /\ \A r \in DOMAIN rooms : Len(rooms[r].players) = 1
  /\ \E r \in DOMAIN rooms : rooms[r].romName = "Zelda"
  /\ \E r \in DOMAIN rooms : rooms[r].romName = ""
  /\ IsJoin(last) \/ IsDisconnect(last)
  /\ Sent(out, "rooms:list") # {}

IsCleanup(l) == l.ev = "cleanup"

\* C15: a cleanup sweep deletes exactly the rooms without participants, never
\* a room with participants, and leaves every other room as it was; it emits
\* rooms:list exactly once when it deleted a room and nothing otherwise; a
\* sweep of a registry without empty room changes nothing.
C15_SweepOnlyEmpty ==
  [][IsCleanup(last') =>
       LET empty == {r \in DOMAIN rooms : rooms[r].players = <<>>} IN
         /\ DOMAIN rooms' = DOMAIN rooms \ empty
         /\ \A r \in DOMAIN rooms' : rooms'[r] = rooms[r]
         /\ \A r \in DOMAIN rooms : rooms[r].players # <<>> => r \in DOMAIN rooms'
         /\ IF empty # {}
            THEN Len(out') = 1 /\ out'[1].ev = "rooms:list"
            ELSE out' = <<>> /\ rooms' = rooms]_vars

\* a sweep has run over a registry with two rooms and changed nothing
C15_Witness ==
  /\ IsCleanup(last)
  /\ Cardinality(DOMAIN rooms) = 2
  /\ out = <<>>

IsSetRom(l) == l.ev = "room:setrom"

\* C17: a successful room:join, a disconnect of a connection that has joined
\* a room, and a room:setrom on a room of the registry each emit exactly one
\* rooms:list, built from the registry as the handler left it; a refused
\* room:join, a joypad:input, a webrtc relay, a chat:msg and a disconnect of a
\* connection that is in no room emit none.
C17_OneBroadcastPerChange ==
  LET n == Cardinality(Sent(out, "rooms:list")) IN
    /\ (IsJoin(last) /\ Joined(out)) => n = 1
    /\ (IsJoin(last) /\ Rejected(out)) => n = 0
    /\ IsDisconnect(last) => n = (IF last.roomId # "" THEN 1 ELSE 0)
    /\ IsSetRom(last) =>
         n = (IF sockData[last.conn].roomId \in DOMAIN rooms THEN 1 ELSE 0)
    /\ (IsJoypad(last) \/ last.ev \in RelayKinds \/ last.ev = "chat:msg")
         => n = 0
    /\ (IsJoin(last) \/ IsDisconnect(last) \/ IsSetRom(last)) =>
         \A i \in Sent(out, "rooms:list") :
           /\ {e.id : e \in out[i].data} = DOMAIN rooms
           /\ \A e \in out[i].data :
                /\ e.playerCount = Len(rooms[e.id].players)
                /\ e.romName = (IF rooms[e.id].romName = "" THEN Null
                                ELSE rooms[e.id].romName)

\* a room:setrom on a room of the registry has been broadcast once
C17_Witness ==
  /\ IsSetRom(last)
  /\ sockData[last.conn].roomId \in DOMAIN rooms
  /\ rooms[sockData[last.conn].roomId].romName = "Zelda"
  /\ Cardinality(Sent(out, "rooms:list")) = 1


\* the name stored for connection c in a room
StoredName(room, c) ==
  room.players[CHOOSE i \in 1..Len(room.players) : room.players[i].id = c].name

\* C18: when a participant with a role other than emulator joins a room whose
\* emulatorSocket is non-null, exactly one viewer:joined carrying the joiner's
\* id, slot and name is sent, and only to the emulatorSocket; when the room
\* has no emulatorSocket, the join sends no viewer:joined.
C18_PeerJoinedToOwnerOnly ==
  (IsJoin(last) /\ Joined(out) /\ last.role # "emulator") =>
    LET room == rooms[last.roomId]
        vj == Sent(out, "viewer:joined")
    IN  IF room.emulatorSocket # Null
        THEN /\ Cardinality(vj) = 1
             /\ \A i \in vj :
                  /\ out[i].rcpt = {room.emulatorSocket}
                  /\ out[i].data = [socketId |-> last.conn,
                                    slot |-> sockData[last.conn].slot,
                                    name |-> StoredName(room, last.conn)]
        ELSE vj = {}


\* C19: when an emulator-role join succeeds, the joiner receives exactly one
\* viewer:joined for each other participant of the room whose role is not
\* emulator (carrying its id, slot and name) and none for itself or for
\* another emulator-role participant, and every other participant of the room
\* receives exactly one emulator:joined.
C19_OwnerJoinNotifications ==
  (IsJoin(last) /\ Joined(out) /\ last.role = "emulator") =>
    LET room == rooms[last.roomId]
        c == last.conn
        vj == Sent(out, "viewer:joined")
        ej == Sent(out, "emulator:joined")
    IN  /\ \A k \in 1..Len(room.players) :
             LET p == room.players[k]
                 forP == {i \in vj : out[i].data.socketId = p.id}
             IN  IF p.id # c /\ p.role # "emulator"
                 THEN /\ Cardinality(forP) = 1
                      /\ \A i \in forP :
                           /\ out[i].rcpt = {c}
                           /\ out[i].data = [socketId |-> p.id, slot |-> p.slot,
                                             name |-> p.name]
                 ELSE forP = {}
        /\ \A k \in 1..Len(room.players) :
             room.players[k].id # c =>
               Cardinality({i \in ej : room.players[k].id \in out[i].rcpt}) = 1

\* the event names of a sequence of messages, in order
Events(o) == [i \in 1..Len(o) |-> o[i].ev]

\* C20: a disconnect that leaves its room non-empty emits, in this order,
\* emulator:left (only if the departing connection was the emulatorSocket),
\* room:newhost (only if it was the host), room:updated with the room as it
\* is after the departure, and rooms:list.  A disconnect that empties its
\* room deletes the room and emits rooms:list, and no room:newhost or
\* room:updated.
C20_DisconnectOrder ==
  [][(IsDisconnect(last') /\ last'.roomId # "") =>
       LET r == last'.roomId
           c == last'.conn
           rem == MapDelete(rooms[r].players, c)
           ownerLeft == IF rooms[r].emulatorSocket = c
                        THEN <<"emulator:left">> ELSE <<>>
           newHost == IF rooms[r].host = c THEN <<"room:newhost">> ELSE <<>>
       IN  IF rem # <<>>
           THEN /\ r \in DOMAIN rooms'
                /\ Events(out') =
                     ownerLeft \o newHost \o <<"room:updated", "rooms:list">>
                /\ \A i \in Sent(out', "room:updated") :
                     /\ out'[i].data.id = r
                     /\ out'[i].data.host = rooms'[r].host
                     /\ out'[i].data.players = rooms'[r].players
                     /\ c \notin {out'[i].data.players[k].id :
                                     k \in 1..Len(out'[i].data.players)}
                /\ \A i \in Sent(out', "room:newhost") :
                     out'[i].data.host = rooms'[r].host
           ELSE /\ r \notin DOMAIN rooms'
                /\ Events(out') = ownerLeft \o <<"rooms:list">>]_vars

\* the connection that was host and emulatorSocket has left a room in which a
\* participant remains: all four notifications have been emitted
C20_Witness ==
  /\ IsDisconnect(last)
  /\ last.roomId \in DOMAIN rooms
  /\ Events(out) =
       <<"emulator:left", "room:newhost", "room:updated", "rooms:list">>


\* C21: on a successful room:join the registry is changed first and the
\* messages follow in this order: room:joined to the joiner, with a snapshot
\* that already contains the joiner; room:updated to every other participant
\* of the room and not to the joiner; rooms:list; then the viewer:joined and
\* emulator:joined notifications, if any.
C21_JoinOrder ==
  (IsJoin(last) /\ Joined(out)) =>
    LET r == last.roomId
        c == last.conn
        snapshot == [id |-> r, host |-> rooms[r].host,
                     players |-> rooms[r].players]
    IN  /\ Len(out) >= 3
        /\ SubSeq(Events(out), 1, 3) =
             <<"room:joined", "room:updated", "rooms:list">>
        /\ \A i \in 4..Len(out) :
             out[i].ev \in {"viewer:joined", "emulator:joined"}
        /\ out[1].rcpt = {c}
        /\ out[1].data.info = snapshot
        /\ c \in PlayerIds(rooms[r])
        /\ out[2].data = snapshot
        /\ c \notin out[2].rcpt
        /\ (PlayerIds(rooms[r]) \ {c}) \subseteq out[2].rcpt


\* C22: the romName of a room changes only through a room:setrom sent by the
\* connection that is the room's emulatorSocket; a room:setrom from any other
\* connection leaves every romName unchanged.
C22_LabelOnlyByOwner ==
  [][\A r \in DOMAIN rooms \cap DOMAIN rooms' :
       rooms'[r].romName # rooms[r].romName =>
         /\ IsSetRom(last')
         /\ last'.conn = rooms[r].emulatorSocket]_vars

\* C23: a joypad:input of a connection that has joined a room is routed in
\* the room, and tagged with the slot, that socket.data recorded at the join,
\* whatever roomId and slot the payload declares; the payload's values are
\* used only where socket.data has none; when the two sources do not yield
\* both a room and a slot the event is dropped.
C23_RecordedRoomAndSlot ==
  IsJoypad(last) =>
    LET rec == sockData[last.conn]
        R == IF rec.roomId # "" THEN rec.roomId ELSE last.roomId
        S == IF rec.slot # NoSlot THEN rec.slot ELSE last.slot
    IN  /\ (R = "" \/ S = NoSlot) => out = <<>>
        /\ Len(out) <= 1
        /\ \A i \in 1..Len(out) :
             /\ out[i].ev = "joypad:state"
             /\ out[i].data.slot = S
             /\ R \in DOMAIN rooms
             /\ OwnerOrHost(rooms[R]) # Null
             /\ out[i].rcpt =
                  {x \in connected : OwnerOrHost(rooms[R]) \in sioRooms[x]}
        /\ (R \in DOMAIN rooms /\ S # NoSlot /\ OwnerOrHost(rooms[R]) # Null)
             => Len(out) = 1

\* a connection that joined a room with slot 1 has sent a joypad:input whose
\* payload names another room, which exists, and slot 3: the event has been
\* routed in the recorded room with slot 1
C23_Witness ==
  /\ IsJoypad(last)
  /\ sockData[last.conn].roomId # ""
  /\ last.roomId # ""
  /\ last.roomId # sockData[last.conn].roomId
  /\ last.roomId \in DOMAIN rooms
  /\ last.slot = 3
  /\ sockData[last.conn].slot = 1
  /\ Len(out) = 1
  /\ out[1].data.slot = 1
  /\ OwnerOrHost(rooms[last.roomId]) \notin out[1].rcpt

\* the participants of a room whose role is not viewer, by position
NonViewers(room) ==
  {i \in 1..Len(room.players) : room.players[i].role # "viewer"}

\* C24 (as claimed): in a room from which no participant has departed, the
\* host is the first participant with a role other than viewer to have
\* joined.
C24_HostFirstNonViewer ==
  \A r \in DOMAIN rooms :
    (~hist[r].departed /\ NonViewers(rooms[r]) # {}) =>
      rooms[r].host = rooms[r].players[Smallest(NonViewers(rooms[r]))].id

\* C24 (amended): in a room from which no participant has departed, the host
\* is the first participant to have joined, whatever its role.
C24_HostFirstJoiner ==
  \A r \in DOMAIN rooms :
    ~hist[r].departed =>
      /\ rooms[r].players # <<>>
      /\ rooms[r].host = rooms[r].players[1].id

\* a viewer joined first, a non-viewer joined after it, and the viewer is
\* the host
C24_Witness ==
  \E r \in DOMAIN rooms :
    /\ ~hist[r].departed
    /\ Len(rooms[r].players) = 2
    /\ rooms[r].players[1].role = "viewer"
    /\ rooms[r].players[2].role # "viewer"
    /\ rooms[r].host = rooms[r].players[1].id
    /\ IsJoin(last) /\ last.conn = rooms[r].players[2].id

\* the messages that only pass through the server
PassThrough ==
  {"joypad:input", "webrtc:request-offer", "chat:msg", "perf:ping"}
    \cup RelayKinds

\* C25: handling a joypad:input, a webrtc:offer / answer / ice, a
\* webrtc:request-offer, a chat:msg or a perf:ping leaves the registry as it
\* was: the same rooms, and in every room the same participants, slots, host,
\* emulatorSocket and romName, whether the message is delivered or dropped.
C25_RegistryUntouched ==
  [][last'.ev \in PassThrough =>
       /\ DOMAIN rooms' = DOMAIN rooms
       /\ \A r \in DOMAIN rooms :
            /\ rooms'[r].players = rooms[r].players
            /\ rooms'[r].host = rooms[r].host
            /\ rooms'[r].emulatorSocket = rooms[r].emulatorSocket
            /\ rooms'[r].romName = rooms[r].romName]_vars

\* a request-offer of a connection that is in no room has been dropped while
\* a labelled room exists
C25_Witness ==
  /\ last.ev = "webrtc:request-offer"
  /\ sockData[last.conn].roomId = ""
  /\ out = <<>>
  /\ \E r \in DOMAIN rooms : rooms[r].romName = "Zelda"


\* C26: after any handler has run no room of the registry is without
\* participants; hence a cleanup sweep removes no room and emits no
\* rooms:list.
C26_NoEmptyRoom ==
  /\ [](\A r \in DOMAIN rooms : Len(rooms[r].players) >= 1)
  /\ [](IsCleanup(last) => Sent(out, "rooms:list") = {})
  /\ [][IsCleanup(last') => DOMAIN rooms' = DOMAIN rooms]_vars

\* a sweep has run right after departures left a single participant in a
\* room, and it found nothing to remove
C26_Witness ==
  /\ IsCleanup(last)
  /\ out = <<>>
  /\ \E r \in DOMAIN rooms : hist[r].departed /\ Len(rooms[r].players) = 1

\* C27: a ControllerClient has at most one running send-loop timer after any
\* sequence of connect, disconnect and reconnect events of its socket, so one
\* period of the send interval emits at most one joypad:input.
C27_OneSendLoop ==
  /\ Cardinality(ctl.timers) <= 1
  /\ Cardinality({i \in 1..Len(ctl.emitted) :
                    ctl.emitted[i].ev = "joypad:input"}) <= 1

====
